---- MODULE Spec2Model ----
(***************************************************************************)
(* Lifetime of intrusively reference-counted Texture objects stored in a   *)
(* plf::hive and exposed through the raw-pointer wgpu* functions           *)
(* (src/03_intrusive_hive_singletonhub.cpp; 02_intrusive_ptr_hive.cpp and  *)
(* 01_intrusive_ptr.cpp share destroy(), ~Texture and the wgpu* layer).    *)
(*                                                                         *)
(* Memory is modelled per hive slot (an address): the fields mRefCounter   *)
(* and mInternalState live at the slot, and a Texture* is a slot.  Each    *)
(* constructed Texture gets a fresh id; the history variable hist records  *)
(* per slot what happened to the Texture last constructed there.  Each     *)
(* thread is at a position (pc) inside one wgpu* call; every step is one   *)
(* access to shared memory.  The variable variants holds one Texture of    *)
(* each of the three files under a common sequence of calls.               *)
(***************************************************************************)
EXTENDS Integers, FiniteSets, Sequences, TLC

\* ------------------------------------------------------------- bounds
NumThreads == 2
MaxTextures == 2
MaxAddRef == 1
MaxOverRelease == 1
MaxCalls == 6

Threads == 1..NumThreads
\* two hive addresses: one element can be erased while another is live, and a
\* later Texture can be constructed where an earlier one was
Slots == {1, 2}

\* enum class TextureInternalState
TextureInternalState == {"Available", "Unavailable", "Destroyed"}

VARIABLES
  slotLive,        \* hive: the slot holds a constructed, not yet erased element
  slotTex,         \* id of the Texture last constructed at the slot (0: never)
  mRefCounter,     \* per slot: Texture::mRefCounter
  mInternalState,  \* per slot: Texture::mInternalState
  pc,              \* per thread: position inside the current call
  ptr,             \* per thread: the Texture* the current call works on
  nextId,          \* number of Textures constructed so far
  refs,            \* per slot: references callers own to the Texture there
  handedOut,       \* per slot: the address was returned to a caller
  hist,            \* per slot: history of the Texture last constructed there
  variants         \* per source file: its Texture under one sequence of calls

vars == <<slotLive, slotTex, mRefCounter, mInternalState, pc, ptr, nextId, refs, handedOut, hist, variants>>

\* the three source files, each a complete program
Variants == {"v01", "v02", "v03"}
\* wgpuInstanceRequestTexture, wgpuTextureAddRef, wgpuTextureRelease, wgpuTextureDestroy
Calls == {"Request", "AddRef", "Release", "Destroy"}

\* mRefCounter is a std::atomic<std::uint64_t>.  Its value v is represented by
\* the integer c with v = c mod 2^64, -2^64 < c < 2^64: c >= 0 stands for c and
\* c < 0 for the wrapped value 2^64 + c.  The bounds keep |c| far below 2^64, so
\* v = 0 exactly when c = 0 and ++/-- are c + 1 and c - 1.
UInt64Inc(c) == c + 1
UInt64Dec(c) == c - 1
Wrapped(c) == c < 0

\* published: wgpuInstanceRequestTexture returned it; addRefs, releases: the
\* wgpuTextureAddRef / wgpuTextureRelease calls on it, firstReleaser: the
\* thread that made the first of the latter; zeroSeen: decrements that
\* saw 0; erases: hive erase calls; reclaimed: erases completed; destroyCalls:
\* wgpuTextureDestroy calls that returned; tdDestroy, tdDtor: teardowns run by
\* wgpuTextureDestroy and by ~Texture; uaf, uafDestroy: an access (by destroy)
\* after the slot was erased; atExit: destructed when the hive was;
\* stale: the threads that were inside a destroy() call on the Texture that had
\* this address before when this one was constructed.
NoHist == [published |-> FALSE, addRefs |-> 0, releases |-> 0, firstReleaser |-> 0,
           zeroSeen |-> 0, erases |-> 0, reclaimed |-> 0,
           destroyCalls |-> 0, tdDestroy |-> 0, tdDtor |-> 0,
           uafDestroy |-> FALSE, uaf |-> FALSE, atExit |-> FALSE, stale |-> {}]

\* The history tallies what happened never, once or more than once.
Tally(n) == IF n >= 2 THEN n ELSE n + 1

\* One Texture as a call leaves it: live (allocated and not yet destructed),
\* its count and state, and how often teardown and reclamation have happened.
NoTexture == [live |-> FALSE, count |-> 0, state |-> "Available",
              teardowns |-> 0, reclaims |-> 0]

\* Texture's member initialisers and the empty hive of Resources
Init ==
  /\ slotLive = [p \in Slots |-> FALSE]
  /\ slotTex = [p \in Slots |-> 0]
  /\ mRefCounter = [p \in Slots |-> 0]
  /\ mInternalState = [p \in Slots |-> "Available"]
  /\ pc = [t \in Threads |-> "idle"]
  /\ ptr = [t \in Threads |-> 0]
  /\ nextId = 0
  /\ refs = [p \in Slots |-> 0]
  /\ handedOut = [p \in Slots |-> FALSE]
  /\ hist = [p \in Slots |-> NoHist]
  /\ variants = [v \in Variants |-> [tex |-> NoTexture, trace |-> <<>>]]

\* ------------------------------------------------------------ helpers
Teardowns(p) == hist[p].tdDestroy + hist[p].tdDtor

InCreate == {"c_ctor", "c_addref", "c_dtor"}
InErase == {"r_erase", "dt_destroy", "dt_set", "dt_free"}
InDestroy == {"x_set"}

\* A read of a field through p.  Reading an erased element is undefined: the
\* bytes may be as the destructor left them or anything the hive or a later
\* occupant wrote.
LoadState(p) == IF slotLive[p] THEN {mInternalState[p]} ELSE TextureInternalState
LoadCounter(p) == IF slotLive[p] THEN {mRefCounter[p]} ELSE {mRefCounter[p], 1}

\* ------------------------------------------------------- the hive
\* plf::hive<Texture>::emplace(): constructs an element in an unoccupied slot;
\* no other element moves.
HiveEmplace(p, i) ==
  /\ ~slotLive[p]
  /\ slotLive' = [slotLive EXCEPT ![p] = TRUE]
  /\ slotTex' = [slotTex EXCEPT ![p] = i]

\* plf::hive<Texture>::erase(get_iterator(p)) destructs the element and frees
\* the slot only when p refers to an occupied slot; otherwise it does nothing.
HiveEraseRuns(p) == slotLive[p]

\* plf::hive<Texture>::erase(get_iterator(p)), after the element's destructor:
\* the slot becomes unoccupied; no other element moves and the bytes stay.
HiveErase(p) ==
  /\ slotLive' = [slotLive EXCEPT ![p] = FALSE]
  /\ UNCHANGED <<slotTex, mRefCounter, mInternalState>>

\* Texture(): mInternalState{Available}, mRefCounter{0}
TextureCtor(p) ==
  /\ mRefCounter' = [mRefCounter EXCEPT ![p] = 0]
  /\ mInternalState' = [mInternalState EXCEPT ![p] = "Available"]

\* ------------------------------------------- the code's conditions
\* a post-decrement in place of the pre-decrement: p->mRefCounter-- == 0
ReleaseComparesOld(new) == UInt64Inc(new) = 0
\* an off-by-one in the comparison: --(p->mRefCounter) <= 1
ReleaseSeesOne(new) == new <= 1 /\ new >= 0
\* the comparison left out: if (--(p->mRefCounter))
ReleaseSeesNonZero(new) == new # 0
\* intrusive_ptr_release: if (--(p->mRefCounter) == 0), on the new value
ReleaseSeesZero(new) == new = 0
\* destroy() without its guard
DestroyNeverReturnsEarly(s) == FALSE
\* Texture::destroy: if (mInternalState == Destroyed) return;
DestroyReturnsEarly(s) == s = "Destroyed"
\* ~Texture: if (mInternalState != Destroyed) destroy();
DtorCallsDestroy(s) == s # "Destroyed"

\* ------------------------------------- wgpuInstanceRequestTexture
\* Resources::createTexture: mTextures.emplace()
CreateEmplace(t) ==
  /\ pc[t] = "idle"
  /\ nextId < MaxTextures
  /\ \E p \in Slots :
       /\ HiveEmplace(p, nextId + 1)
       /\ TextureCtor(p)
       /\ ptr' = [ptr EXCEPT ![t] = p]
       /\ hist' = [hist EXCEPT ![p] =
            [NoHist EXCEPT !.stale = {u \in Threads : pc[u] \in InDestroy /\ ptr[u] = p}]]
  /\ nextId' = nextId + 1
  /\ pc' = [pc EXCEPT ![t] = "c_ctor"]
  /\ UNCHANGED <<refs, handedOut>>

\* Resources::createTexture: boost::intrusive_ptr<Texture> texture{&(*it)} calls
\* intrusive_ptr_add_ref; the pointer is then moved out to the caller's `texture`
CreateCtor(t) ==
  /\ pc[t] = "c_ctor"
  /\ \E old \in LoadCounter(ptr[t]) :
       mRefCounter' = [mRefCounter EXCEPT ![ptr[t]] = UInt64Inc(old)]
  /\ pc' = [pc EXCEPT ![t] = "c_addref"]
  /\ UNCHANGED <<slotLive, slotTex, mInternalState, ptr, nextId, refs, handedOut, hist>>

\* wgpuInstanceRequestTexture without its intrusive_ptr_add_ref
CreateAddRefOmitted(t) ==
  /\ pc[t] = "c_addref"
  /\ pc' = [pc EXCEPT ![t] = "c_dtor"]
  /\ UNCHANGED <<slotLive, slotTex, mRefCounter, mInternalState, ptr, nextId, refs, handedOut, hist>>

\* wgpuInstanceRequestTexture: intrusive_ptr_add_ref(texture.get())
CreateAddRef(t) ==
  /\ pc[t] = "c_addref"
  /\ \E old \in LoadCounter(ptr[t]) :
       mRefCounter' = [mRefCounter EXCEPT ![ptr[t]] = UInt64Inc(old)]
  /\ pc' = [pc EXCEPT ![t] = "c_dtor"]
  /\ UNCHANGED <<slotLive, slotTex, mInternalState, ptr, nextId, refs, handedOut, hist>>

\* wgpuInstanceRequestTexture: return texture.get(); then ~intrusive_ptr calls
\* intrusive_ptr_release.  The caller now holds the handle and one reference.
CreateReturn(t) ==
  /\ pc[t] = "c_dtor"
  /\ LET p == ptr[t]
     IN \E old \in LoadCounter(p) :
          LET new == UInt64Dec(old)
              zero == ReleaseSeesZero(new)
          IN /\ mRefCounter' = [mRefCounter EXCEPT ![p] = new]
             /\ pc' = [pc EXCEPT ![t] = IF zero THEN "r_erase" ELSE "idle"]
             /\ ptr' = [ptr EXCEPT ![t] = IF zero THEN p ELSE 0]
             /\ hist' = [hist EXCEPT ![p].published = TRUE,
                                     ![p].zeroSeen = IF zero THEN Tally(@) ELSE @]
             /\ refs' = [refs EXCEPT ![p] = @ + 1]
             /\ handedOut' = [handedOut EXCEPT ![p] = TRUE]
  /\ UNCHANGED <<slotLive, slotTex, mInternalState, nextId>>

\* ------------------------------------------------ wgpuTextureAddRef
\* intrusive_ptr_add_ref: p->mRefCounter++
AddRef(t, p) ==
  /\ pc[t] = "idle"
  /\ handedOut[p]
  /\ hist[p].addRefs < MaxAddRef
  /\ \E old \in LoadCounter(p) :
       mRefCounter' = [mRefCounter EXCEPT ![p] = UInt64Inc(old)]
  /\ hist' = [hist EXCEPT ![p].addRefs = @ + 1,
                          ![p].uaf = @ \/ ~slotLive[p]]
  /\ refs' = [refs EXCEPT ![p] = @ + 1]
  /\ UNCHANGED <<slotLive, slotTex, mInternalState, pc, ptr, nextId, handedOut>>

\* ----------------------------------------------- wgpuTextureRelease
\* intrusive_ptr_release: --(p->mRefCounter), compared with 0.  owned: the
\* caller gives up a reference it owns (otherwise the call is one too many).
Release(t, p, owned) ==
  /\ pc[t] = "idle"
  /\ handedOut[p]
  /\ \E old \in LoadCounter(p) :
       LET new == UInt64Dec(old)
           zero == ReleaseSeesZero(new)
       IN /\ mRefCounter' = [mRefCounter EXCEPT ![p] = new]
          /\ pc' = [pc EXCEPT ![t] = IF zero THEN "r_erase" ELSE "idle"]
          /\ ptr' = [ptr EXCEPT ![t] = IF zero THEN p ELSE 0]
          /\ hist' = [hist EXCEPT ![p].releases = @ + 1,
                                  ![p].firstReleaser = IF @ = 0 THEN t ELSE @,
                                  ![p].zeroSeen = IF zero THEN Tally(@) ELSE @,
                                  ![p].uaf = @ \/ ~slotLive[p]]
          /\ refs' = IF owned THEN [refs EXCEPT ![p] = @ - 1] ELSE refs
  /\ UNCHANGED <<slotLive, slotTex, mInternalState, nextId, handedOut>>

\* intrusive_ptr_release that calls p->destroy() itself before the erase
EraseBeginDestroysFirst(t) ==
  /\ pc[t] = "r_erase"
  /\ LET p == ptr[t]
         runs == HiveEraseRuns(p)
     IN \E s \in LoadState(p) :
          /\ pc' = [pc EXCEPT ![t] = IF ~runs THEN "idle"
                                     ELSE IF DtorCallsDestroy(s) THEN "dt_destroy"
                                     ELSE "dt_free"]
          /\ ptr' = [ptr EXCEPT ![t] = IF runs THEN p ELSE 0]
          /\ mInternalState' = IF ~runs /\ ~DestroyReturnsEarly(s)
                                 THEN [mInternalState EXCEPT ![p] = "Destroyed"]
                                 ELSE mInternalState
          /\ hist' = [hist EXCEPT ![p].erases = Tally(@),
                                  ![p].tdDestroy = IF ~runs /\ ~DestroyReturnsEarly(s)
                                                   THEN Tally(@) ELSE @,
                                  ![p].uaf = @ \/ ~slotLive[p]]
  /\ UNCHANGED <<slotLive, slotTex, mRefCounter, nextId, refs, handedOut>>

\* intrusive_ptr_release: textures.erase(textures.get_iterator(p)).  On an
\* occupied slot the hive runs ~Texture, which reads mInternalState; on any
\* other address the call returns with nothing done.
EraseBegin(t) ==
  /\ pc[t] = "r_erase"
  /\ LET p == ptr[t]
         runs == HiveEraseRuns(p)
     IN \E s \in LoadState(p) :
          /\ pc' = [pc EXCEPT ![t] = IF ~runs THEN "idle"
                                     ELSE IF DtorCallsDestroy(s) THEN "dt_destroy"
                                     ELSE "dt_free"]
          /\ ptr' = [ptr EXCEPT ![t] = IF runs THEN p ELSE 0]
          /\ hist' = [hist EXCEPT ![p].erases = Tally(@),
                                  ![p].uaf = @ \/ ~slotLive[p]]
  /\ UNCHANGED <<slotLive, slotTex, mRefCounter, mInternalState, nextId, refs, handedOut>>

\* ~Texture -> destroy(): if (mInternalState == Destroyed) return;
DtorDestroyCheck(t) ==
  /\ pc[t] = "dt_destroy"
  /\ \E s \in LoadState(ptr[t]) :
       pc' = [pc EXCEPT ![t] = IF DestroyReturnsEarly(s) THEN "dt_free" ELSE "dt_set"]
  /\ UNCHANGED <<slotLive, slotTex, mRefCounter, mInternalState, ptr, nextId, refs, handedOut, hist>>

\* ~Texture -> destroy(): mInternalState = Destroyed; enqueue GPU memory destruction
DtorDestroySet(t) ==
  /\ pc[t] = "dt_set"
  /\ mInternalState' = [mInternalState EXCEPT ![ptr[t]] = "Destroyed"]
  /\ hist' = [hist EXCEPT ![ptr[t]].tdDtor = Tally(@),
                          ![ptr[t]].uaf = @ \/ ~slotLive[ptr[t]]]
  /\ pc' = [pc EXCEPT ![t] = "dt_free"]
  /\ UNCHANGED <<slotLive, slotTex, mRefCounter, ptr, nextId, refs, handedOut>>

\* textures.erase(textures.begin()) in place of erase(get_iterator(p))
EraseFinishFirst(t) ==
  /\ pc[t] = "dt_free"
  /\ HiveErase(CHOOSE q \in Slots : slotLive[q] /\ \A r \in Slots : slotLive[r] => q <= r)
  /\ hist' = [hist EXCEPT ![ptr[t]].reclaimed = Tally(@)]
  /\ pc' = [pc EXCEPT ![t] = "idle"]
  /\ ptr' = [ptr EXCEPT ![t] = 0]
  /\ UNCHANGED <<nextId, refs, handedOut>>

\* p->~Texture() in place of textures.erase(...): the object is destructed
\* and the slot stays occupied
EraseFinishKeepsSlot(t) ==
  /\ pc[t] = "dt_free"
  /\ hist' = [hist EXCEPT ![ptr[t]].reclaimed = Tally(@)]
  /\ pc' = [pc EXCEPT ![t] = "idle"]
  /\ ptr' = [ptr EXCEPT ![t] = 0]
  /\ UNCHANGED <<slotLive, slotTex, mRefCounter, mInternalState, nextId, refs, handedOut>>

\* ~Texture returns and the hive marks the slot unoccupied
EraseFinish(t) ==
  /\ pc[t] = "dt_free"
  /\ HiveErase(ptr[t])
  /\ hist' = [hist EXCEPT ![ptr[t]].reclaimed = Tally(@)]
  /\ pc' = [pc EXCEPT ![t] = "idle"]
  /\ ptr' = [ptr EXCEPT ![t] = 0]
  /\ UNCHANGED <<nextId, refs, handedOut>>

\* ----------------------------------------------- wgpuTextureDestroy
\* Texture::destroy: if (mInternalState == Destroyed) return;
DestroyCall(t, p) ==
  /\ pc[t] = "idle"
  /\ handedOut[p]
  /\ \E s \in LoadState(p) :
       LET early == DestroyReturnsEarly(s)
       IN /\ pc' = [pc EXCEPT ![t] = IF early THEN "idle" ELSE "x_set"]
          /\ ptr' = [ptr EXCEPT ![t] = IF early THEN 0 ELSE p]
          /\ hist' = [hist EXCEPT ![p].destroyCalls = IF early THEN Tally(@) ELSE @,
                                  ![p].uafDestroy = @ \/ ~slotLive[p]]
  /\ UNCHANGED <<slotLive, slotTex, mRefCounter, mInternalState, nextId, refs, handedOut>>

\* destroy() that also gives up a reference
DestroySetDropsRef(t) ==
  /\ pc[t] = "x_set"
  /\ mInternalState' = [mInternalState EXCEPT ![ptr[t]] = "Destroyed"]
  /\ mRefCounter' = [mRefCounter EXCEPT ![ptr[t]] = UInt64Dec(@)]
  /\ hist' = [hist EXCEPT ![ptr[t]].tdDestroy = Tally(@),
                          ![ptr[t]].destroyCalls = Tally(@),
                          ![ptr[t]].uafDestroy = @ \/ ~slotLive[ptr[t]]]
  /\ pc' = [pc EXCEPT ![t] = "idle"]
  /\ ptr' = [ptr EXCEPT ![t] = 0]
  /\ UNCHANGED <<slotLive, slotTex, nextId, refs, handedOut>>

\* destroy() that sets the wrong enumerator: mInternalState = Unavailable
DestroySetUnavailable(t) ==
  /\ pc[t] = "x_set"
  /\ mInternalState' = [mInternalState EXCEPT ![ptr[t]] = "Unavailable"]
  /\ hist' = [hist EXCEPT ![ptr[t]].tdDestroy = Tally(@),
                          ![ptr[t]].destroyCalls = Tally(@),
                          ![ptr[t]].uafDestroy = @ \/ ~slotLive[ptr[t]]]
  /\ pc' = [pc EXCEPT ![t] = "idle"]
  /\ ptr' = [ptr EXCEPT ![t] = 0]
  /\ UNCHANGED <<slotLive, slotTex, mRefCounter, nextId, refs, handedOut>>

\* Texture::destroy: mInternalState = Destroyed; enqueue GPU memory destruction
DestroySet(t) ==
  /\ pc[t] = "x_set"
  /\ mInternalState' = [mInternalState EXCEPT ![ptr[t]] = "Destroyed"]
  /\ hist' = [hist EXCEPT ![ptr[t]].tdDestroy = Tally(@),
                          ![ptr[t]].destroyCalls = Tally(@),
                          ![ptr[t]].uafDestroy = @ \/ ~slotLive[ptr[t]],
                          ![ptr[t]].stale = @ \ {t}]
  /\ pc' = [pc EXCEPT ![t] = "idle"]
  /\ ptr' = [ptr EXCEPT ![t] = 0]
  /\ UNCHANGED <<slotLive, slotTex, mRefCounter, nextId, refs, handedOut>>

\* ------------------------------------------- the three source files
\* Each file's Texture and wgpu* functions, a call taken as a whole: x is the
\* Texture before the call, the result the Texture after it.

\* 01_intrusive_ptr.cpp: Texture on the heap, counted by
\* boost::intrusive_ref_counter<Texture>
V1Destroy(x) ==
  IF x.state = "Destroyed" THEN x
  ELSE [x EXCEPT !.state = "Destroyed", !.teardowns = @ + 1]
\* delete p: ~Texture, then the memory is freed
V1Dtor(x) ==
  LET y == IF x.state # "Destroyed" THEN V1Destroy(x) ELSE x
  IN [y EXCEPT !.live = FALSE, !.reclaims = @ + 1]
\* boost's intrusive_ptr_add_ref: the counter incremented
V1AddRef(x) == [x EXCEPT !.count = @ + 1]
\* boost's intrusive_ptr_release: delete when the decremented counter is 0
V1Release(x) ==
  LET y == [x EXCEPT !.count = @ - 1]
  IN IF y.count = 0 THEN V1Dtor(y) ELSE y
\* new Texture() into an intrusive_ptr, add_ref, return: ~intrusive_ptr
V1Request(x) ==
  V1Release(V1AddRef(V1AddRef([x EXCEPT !.live = TRUE, !.count = 0, !.state = "Available"])))

\* 02_intrusive_ptr_hive.cpp: Texture in a hive it holds a pointer to
V2Destroy(x) ==
  IF x.state = "Destroyed" THEN x
  ELSE [x EXCEPT !.state = "Destroyed", !.teardowns = @ + 1]
\* mHive->erase(mHive->get_iterator(p)): ~Texture, then the slot is freed
V2Dtor(x) ==
  LET y == IF x.state # "Destroyed" THEN V2Destroy(x) ELSE x
  IN [y EXCEPT !.live = FALSE, !.reclaims = @ + 1]
V2AddRef(x) == [x EXCEPT !.count = @ + 1]
V2Release(x) ==
  LET y == [x EXCEPT !.count = @ - 1]
  IN IF y.count = 0 THEN V2Dtor(y) ELSE y
\* wgpuInstanceRequestTexture without its intrusive_ptr_add_ref
V2RequestNoAddRef(x) ==
  V2Release(V2AddRef([x EXCEPT !.live = TRUE, !.count = 0, !.state = "Available"]))
\* createTexture: emplace, the pointer converted to an intrusive_ptr (add_ref);
\* add_ref; return: ~intrusive_ptr
V2Request(x) ==
  V2Release(V2AddRef(V2AddRef([x EXCEPT !.live = TRUE, !.count = 0, !.state = "Available"])))

\* 03_intrusive_hive_singletonhub.cpp: Texture in the hive of Resources
V3Destroy(x) ==
  IF DestroyReturnsEarly(x.state) THEN x
  ELSE [x EXCEPT !.state = "Destroyed", !.teardowns = @ + 1]
V3Dtor(x) ==
  LET y == IF DtorCallsDestroy(x.state) THEN V3Destroy(x) ELSE x
  IN [y EXCEPT !.live = FALSE, !.reclaims = @ + 1]
V3AddRef(x) == [x EXCEPT !.count = UInt64Inc(@)]
V3Release(x) ==
  LET y == [x EXCEPT !.count = UInt64Dec(@)]
  IN IF ReleaseSeesZero(y.count) THEN V3Dtor(y) ELSE y
V3Request(x) ==
  V3Release(V3AddRef(V3AddRef([x EXCEPT !.live = TRUE, !.count = 0, !.state = "Available"])))

\* the call c of the file v on the Texture x
VariantApply(v, c, x) ==
  CASE v = "v01" -> (CASE c = "Request" -> V1Request(x) [] c = "AddRef" -> V1AddRef(x)
                       [] c = "Release" -> V1Release(x) [] c = "Destroy" -> V1Destroy(x))
    [] v = "v02" -> (CASE c = "Request" -> V2Request(x) [] c = "AddRef" -> V2AddRef(x)
                       [] c = "Release" -> V2Release(x) [] c = "Destroy" -> V2Destroy(x))
    [] v = "v03" -> (CASE c = "Request" -> V3Request(x) [] c = "AddRef" -> V3AddRef(x)
                       [] c = "Release" -> V3Release(x) [] c = "Destroy" -> V3Destroy(x))

\* The same call made in each of the three programs.  A Texture is requested
\* when none is live, and the other calls are made on the live Texture (a call
\* on a reclaimed one is undefined).  Each program records what the call left.
VariantsCall(c) ==
  /\ \A v \in Variants :
       /\ Len(variants[v].trace) < MaxCalls
       /\ variants[v].tex.live <=> c # "Request"
  /\ variants' = [v \in Variants |->
       LET y == VariantApply(v, c, variants[v].tex)
       IN [tex |-> y, trace |-> Append(variants[v].trace, y)]]
  /\ UNCHANGED <<slotLive, slotTex, mRefCounter, mInternalState, pc, ptr, nextId,
                 refs, handedOut, hist>>

NextVariants == \E c \in Calls : VariantsCall(c)

SpecVariants == Init /\ [][NextVariants]_vars

\* ----------------------------------------------------- process end
\* The hive is a static object (02) or a member of Resources (03), which has no
\* destructor of its own: when main has returned and the hive is destructed,
\* ~Texture runs for every element still in it.  Nothing looks at mRefCounter
\* except the destructor's print.  No call is made afterwards.
ResourcesTeardown ==
  /\ \A t \in Threads : pc[t] = "idle"
  /\ pc' = [t \in Threads |-> "exit"]
  /\ slotLive' = [p \in Slots |-> FALSE]
  /\ mInternalState' = [p \in Slots |->
       IF slotLive[p] /\ DtorCallsDestroy(mInternalState[p])
                      /\ ~DestroyReturnsEarly(mInternalState[p])
       THEN "Destroyed" ELSE mInternalState[p]]
  /\ hist' = [p \in Slots |->
       IF slotLive[p]
       THEN [hist[p] EXCEPT !.tdDtor = IF DtorCallsDestroy(mInternalState[p])
                                          /\ ~DestroyReturnsEarly(mInternalState[p])
                                       THEN Tally(@) ELSE @,
                            !.reclaimed = Tally(@),
                            !.atExit = TRUE]
       ELSE hist[p]]
  /\ UNCHANGED <<slotTex, mRefCounter, ptr, nextId, refs, handedOut, variants>>

\* ------------------------------------------------------- callers
\* the steps inside a call, which no caller contract restricts
Step(t) ==
  /\ \/ CreateCtor(t)
     \/ CreateAddRef(t)
     \/ CreateReturn(t)
     \/ EraseBegin(t)
     \/ DtorDestroyCheck(t)
     \/ DtorDestroySet(t)
     \/ EraseFinish(t)
     \/ DestroySet(t)
  /\ UNCHANGED variants

\* Callers own references, not threads: a reference may pass from thread to
\* thread between calls.  A thread inside destroy() keeps the reference it
\* called with until the call returns.
InUse(p) == Cardinality({u \in Threads : pc[u] \in InDestroy /\ ptr[u] = p})
\* an idle thread can own a reference to the Texture at p
OwnsRef(p) == refs[p] - InUse(p) >= 1

\* Callers that keep the contract: a thread calls add_ref, release or destroy
\* only on a Texture it owns a reference to, and release gives that one up.
OwnerCall(t) ==
  /\ \/ CreateEmplace(t)
     \/ \E p \in Slots : OwnsRef(p) /\ AddRef(t, p)
     \/ \E p \in Slots : OwnsRef(p) /\ Release(t, p, TRUE)
     \/ \E p \in Slots : OwnsRef(p) /\ DestroyCall(t, p)
  /\ UNCHANGED variants

Next == \E t \in Threads : Step(t) \/ OwnerCall(t)

Spec == Init /\ [][Next]_vars

\* No call blocks: a thread inside a call goes on to its next step.
SpecFair == Spec /\ \A t \in Threads : WF_vars(Step(t))

\* The run of the whole process: calls, then the end of main.
NextExit == Next \/ ResourcesTeardown

SpecExit == Init /\ [][NextExit]_vars

\* One wgpu* call at a time: a call starts only when no other is in progress.
NextSeq == \E t \in Threads :
  /\ \A u \in Threads \ {t} : pc[u] = "idle"
  /\ (Step(t) \/ OwnerCall(t))

SpecSeq == Init /\ [][NextSeq]_vars

\* Callers that own references as above, and threads that call destroy() on a
\* handle that is valid when they call, without owning a reference themselves.
HandleCall(t) ==
  /\ \E p \in Slots : hist[p].published /\ slotLive[p] /\ DestroyCall(t, p)
  /\ UNCHANGED variants

NextHandle == \E t \in Threads : Step(t) \/ OwnerCall(t) \/ HandleCall(t)

SpecHandle == Init /\ [][NextHandle]_vars

\* Callers that also call release() once every reference to the Texture they
\* got the handle for has been given up: a release too many.
ExcessCall(t) ==
  /\ \E p \in Slots :
       /\ refs[p] = 0
       /\ hist[p].releases < hist[p].addRefs + 1 + MaxOverRelease
       /\ Release(t, p, FALSE)
  /\ UNCHANGED variants

NextRaw == \E t \in Threads : Step(t) \/ OwnerCall(t) \/ ExcessCall(t)

SpecRaw == Init /\ [][NextRaw]_vars

\* The same callers, making one call at a time.
NextRawSeq == \E t \in Threads :
  /\ \A u \in Threads \ {t} : pc[u] = "idle"
  /\ (Step(t) \/ OwnerCall(t) \/ ExcessCall(t))

SpecRawSeq == Init /\ [][NextRawSeq]_vars

\* ------------------------------------------------------------ claims
Erasing(p) == \E t \in Threads : pc[t] \in InErase /\ ptr[t] = p

\* C1: a Texture from wgpuInstanceRequestTexture is reclaimed (erased from the
\* hive and destructed) exactly when the wgpuTextureRelease calls on it number
\* one more than the wgpuTextureAddRef calls (the erase that the last release
\* starts having finished), and it is reclaimed at most once.
C1_ReclaimedIffBalanced == \A p \in Slots : hist[p].published =>
  /\ hist[p].reclaimed <= 1
  /\ hist[p].erases <= 1
  /\ (hist[p].reclaimed = 1 <=> ~slotLive[p])
  /\ (hist[p].reclaimed = 1 => hist[p].releases = hist[p].addRefs + 1)
  /\ (hist[p].releases = hist[p].addRefs + 1 /\ ~Erasing(p) => hist[p].reclaimed = 1)

C1_Witness == \E p \in Slots :
  hist[p].published /\ hist[p].reclaimed = 1 /\ hist[p].addRefs >= 1 /\ hist[p].releases >= 2

\* C2: however the release calls of several threads on one Texture interleave,
\* at most one decrement sees 0, only a call that saw 0 erases, the erase is
\* called at most once, and once every reference is given up one call saw 0.
C2_OneReleaseSeesZero == \A p \in Slots :
  /\ hist[p].zeroSeen <= 1
  /\ hist[p].erases <= hist[p].zeroSeen
  /\ Cardinality({t \in Threads : pc[t] \in InErase /\ ptr[t] = p}) <= 1
  /\ (Erasing(p) => hist[p].zeroSeen = 1)
  /\ (hist[p].published /\ refs[p] = 0 => hist[p].zeroSeen = 1)
  /\ (hist[p].published /\ refs[p] = 0 /\ ~Erasing(p) => hist[p].erases = 1)

C2_Witness == \E p \in Slots, t \in Threads :
  /\ hist[p].published /\ hist[p].releases >= 2
  /\ hist[p].firstReleaser \in Threads \ {t}
  /\ pc[t] = "dt_free" /\ ptr[t] = p
  /\ hist[p].zeroSeen = 1 /\ hist[p].erases = 1

\* once a destroy() call has returned: state Destroyed, one teardown
C3_DestroyInv == \A p \in Slots : hist[p].published /\ hist[p].destroyCalls >= 1 =>
  mInternalState[p] = "Destroyed" /\ Teardowns(p) = 1

\* a destroy() call after one that returned leaves the program state as it is
C3_DestroyAct == \A t \in Threads, p \in Slots :
  DestroyCall(t, p) /\ hist[p].destroyCalls >= 1 =>
    /\ UNCHANGED <<slotLive, slotTex, mRefCounter, mInternalState, pc, ptr, refs>>
    /\ Teardowns(p)' = Teardowns(p)

\* C3: after one or more destroy() calls made one after another the Texture is
\* Destroyed and teardown has run once, and a call on a Texture a destroy()
\* call already returned from changes nothing.
C3_DestroyIdempotent == [][C3_DestroyInv' /\ C3_DestroyAct]_vars

C3_Witness == \E p \in Slots :
  /\ hist[p].published /\ slotLive[p] /\ hist[p].destroyCalls >= 2
  /\ mInternalState[p] = "Destroyed" /\ hist[p].tdDestroy = 1

\* C4: when threads call destroy() on one live Texture at the same time, only
\* one of them makes the Available -> Destroyed transition: teardown runs at
\* most once per Texture.
C4_TeardownAtMostOnce == \A p \in Slots : Teardowns(p) <= 1

\* C5: by the time a Texture is reclaimed teardown has run exactly once: by
\* ~Texture when no destroy() call made the transition, by destroy() otherwise.
C5_TeardownOnceByReclaim == \A p \in Slots : hist[p].published /\ hist[p].reclaimed >= 1 =>
  /\ Teardowns(p) = 1
  /\ (hist[p].tdDtor = 1 <=> hist[p].tdDestroy = 0)

\* C6: inside wgpuInstanceRequestTexture the count goes 0 -> 1 -> 2 -> 1 with
\* the element in the hive throughout, and the call returns a live Texture with
\* count 1 and state Available that no erase was started for.
C6_CreateCounts == [][\A t \in Threads :
  /\ (pc[t] = "idle" /\ pc'[t] = "c_ctor" =>
        slotLive'[ptr'[t]] /\ mRefCounter'[ptr'[t]] = 0
        /\ mInternalState'[ptr'[t]] = "Available")
  /\ (pc[t] = "c_ctor" /\ pc'[t] # "c_ctor" =>
        pc'[t] = "c_addref" /\ slotLive'[ptr[t]] /\ mRefCounter'[ptr[t]] = 1)
  /\ (pc[t] = "c_addref" /\ pc'[t] # "c_addref" =>
        pc'[t] = "c_dtor" /\ slotLive'[ptr[t]] /\ mRefCounter'[ptr[t]] = 2)
  /\ (pc[t] = "c_dtor" /\ pc'[t] # "c_dtor" =>
        /\ pc'[t] = "idle" /\ slotLive'[ptr[t]] /\ mRefCounter'[ptr[t]] = 1
        /\ mInternalState'[ptr[t]] = "Available"
        /\ hist'[ptr[t]].published /\ hist'[ptr[t]].zeroSeen = 0
        /\ hist'[ptr[t]].erases = 0)]_vars

C6_Witness == \E p \in Slots :
  /\ hist[p].published /\ hist[p].addRefs = 0 /\ hist[p].releases = 0
  /\ slotLive[p] /\ mRefCounter[p] = 1 /\ mInternalState[p] = "Available"

\* C7: a step of wgpuTextureDestroy changes no reference count, erases no
\* slot, starts no erase and reclaims nothing.
C7_DestroyFrame == [][\A t \in Threads :
  ((pc[t] = "x_set" /\ pc'[t] # "x_set") \/ (\E p \in Slots : DestroyCall(t, p))) =>
    /\ UNCHANGED <<mRefCounter, slotLive, slotTex, refs>>
    /\ \A p \in Slots : /\ hist'[p].erases = hist[p].erases
                         /\ hist'[p].reclaimed = hist[p].reclaimed
                         /\ hist'[p].zeroSeen = hist[p].zeroSeen]_vars

C7_Witness == \E p \in Slots :
  /\ hist[p].published /\ hist[p].tdDestroy >= 1 /\ hist[p].destroyCalls >= 2
  /\ slotLive[p] /\ mRefCounter[p] = 2 /\ hist[p].erases = 0

\* C8: a destroy() call racing with the last release() never touches a Texture
\* whose slot is already erased, and teardown is not run both by it and by
\* ~Texture.
C8_DestroyRaceSafe == \A p \in Slots :
  /\ ~hist[p].uafDestroy
  /\ ~(hist[p].tdDestroy >= 1 /\ hist[p].tdDtor >= 1)

\* C9: a release() too many never wraps the counter below zero and never
\* leads to a second erase.
C9_NoWrapNoSecondErase == \A p \in Slots :
  ~Wrapped(mRefCounter[p]) /\ hist[p].erases <= 1

\* C10: a live Texture stays at its address until its own erase finishes: no
\* create, add_ref, release, destroy or erase of another Texture moves it or
\* ends it.
C10_AddressStable == [][\A p \in Slots : slotLive[p] =>
  /\ \/ slotLive'[p] /\ slotTex'[p] = slotTex[p]
     \/ \E t \in Threads : pc[t] = "dt_free" /\ ptr[t] = p /\ pc'[t] = "idle"
  /\ \A q \in Slots : slotLive'[q] /\ slotTex'[q] = slotTex[p] => q = p]_vars

C10_Witness == \E p, q \in Slots :
  /\ p # q /\ slotLive[p] /\ hist[p].published /\ hist[p].addRefs >= 1
  /\ ~slotLive[q] /\ hist[q].reclaimed = 1

\* C11: no Texture from wgpuInstanceRequestTexture is leaked: when threads keep
\* running and the creation reference and every added reference have been
\* released, the slot is eventually erased and the object destructed.
C11_NoLeak == \A p \in Slots :
  (hist[p].published /\ refs[p] = 0) ~> (~slotLive[p] /\ hist[p].reclaimed = 1)

C11_Witness == \E p \in Slots :
  /\ hist[p].published /\ refs[p] = 0 /\ hist[p].addRefs >= 1
  /\ ~slotLive[p] /\ hist[p].reclaimed = 1 /\ hist[p].tdDtor = 1

\* C12: the internal state of a Texture only moves Available -> Destroyed: no
\* step moves a Destroyed Texture back, and no step stores Unavailable.
C12_StateMonotone == [][\A p \in Slots :
  /\ mInternalState'[p] # "Unavailable"
  /\ (slotTex'[p] = slotTex[p] /\ mInternalState[p] = "Destroyed"
        => mInternalState'[p] = "Destroyed")
  /\ (slotTex'[p] # slotTex[p] => mInternalState'[p] = "Available")]_vars

C12_Witness == \E p \in Slots :
  /\ hist[p].published /\ slotLive[p] /\ mInternalState[p] = "Destroyed"
  /\ hist[p].tdDestroy = 1 /\ hist[p].addRefs >= 1 /\ hist[p].releases >= 1

\* C13: add_ref, and a release that leaves the count above zero, change only
\* the count of their Texture: it stays in the hive, its state is as before,
\* no teardown runs, no erase starts and the caller is back from the call.
C13_CountOnlyFrame == [][\A t \in Threads, p \in Slots :
  (AddRef(t, p) \/ (Release(t, p, TRUE) /\ mRefCounter'[p] > 0)) =>
    /\ UNCHANGED <<slotLive, slotTex, mInternalState, pc, ptr>>
    /\ slotLive[p]
    /\ \A q \in Slots \ {p} : mRefCounter'[q] = mRefCounter[q]
    /\ \A q \in Slots : /\ Teardowns(q)' = Teardowns(q)
                         /\ hist'[q].erases = hist[q].erases
                         /\ hist'[q].zeroSeen = hist[q].zeroSeen
                         /\ hist'[q].reclaimed = hist[q].reclaimed]_vars

C13_Witness == \E p \in Slots :
  /\ hist[p].published /\ hist[p].addRefs = 1 /\ hist[p].releases = 1
  /\ slotLive[p] /\ mRefCounter[p] = 1 /\ mInternalState[p] = "Available"
  /\ Teardowns(p) = 0 /\ hist[p].erases = 0

C15_TeardownReportsLive == \A p \in Slots :
  hist[p].atExit => ~(hist[p].published /\ mRefCounter[p] > 0)

C18_InStoreIffCounted ==
  (\A t \in Threads : pc[t] \notin InCreate \cup InErase) =>
    \A p \in Slots : slotTex[p] # 0 => (slotLive[p] <=> mRefCounter[p] >= 1)

C18_Witness == \E p, q \in Slots :
  /\ \A t \in Threads : pc[t] \notin InCreate \cup InErase
  /\ slotLive[p] /\ mRefCounter[p] = 2 /\ hist[p].published
  /\ ~slotLive[q] /\ mRefCounter[q] = 0 /\ hist[q].published /\ hist[q].releases = 1

\* C19: when every caller of add_ref and release owns a reference when it
\* calls, the count is 0 from the decrement that saw 0 until the slot is
\* erased, under every interleaving: no add_ref lands in between, and no
\* Texture is reclaimed while a reference to it is outstanding.
C19_ZeroAtErase == \A t \in Threads : pc[t] \in InErase =>
  /\ mRefCounter[ptr[t]] = 0
  /\ refs[ptr[t]] = 0
  /\ slotLive[ptr[t]]

C19_Witness == \E t, u \in Threads :
  /\ t # u /\ pc[t] = "dt_free" /\ mRefCounter[ptr[t]] = 0
  /\ hist[ptr[t]].addRefs >= 1 /\ hist[ptr[t]].releases >= 2
  /\ pc[u] \in InCreate \cup InDestroy

====
